---- MODULE Spec2Model ----
(***************************************************************************)
(* State-machine model of cri::cri_link (src/lib/cri/cri_link.cpp): the    *)
(* per-link control layer of the CRI readout controller, and of the        *)
(* self-monitoring counters of cbm::MonitorSinkInflux2                     *)
(* (src/lib/monitoring/MonitorSinkInflux2.cpp).                            *)
(*                                                                         *)
(* A 32-bit register is the set of its bit positions that hold 1, a subset *)
(* of 0..31, so a masked write is set algebra and no 32-bit value has to   *)
(* fit a machine integer of the checker.                                   *)
(***************************************************************************)
EXTENDS Integers, FiniteSets, Sequences, TLC

VARIABLES
  m_link_index,                  \* cri_link::m_link_index
  rfpkt,                         \* register window of the packet domain (m_rfpkt)
  rfgtx,                         \* register window of the gtx domain (m_rfgtx)
  m_reg_perf_interval_cached,    \* cached packet-domain interval (a 32-bit word)
  m_reg_gtx_perf_interval_cached,\* cached gtx-domain interval (a 32-bit word)
  m_dma_channel,                 \* the unique_ptr: 0 is nullptr, else a channel id
  channels,                      \* the dma_channel objects constructed and not yet destroyed
  hwDma,                         \* the link's hardware DMA engine: 0 quiesced, else the
                                 \* id of the channel whose buffers it streams into
  nChannels,                     \* number of dma_channel objects constructed so far
  newChannel,                    \* init_dma's temporary: the channel `new` returned
  pc,                            \* position of the (single) owner thread
  call,                          \* the call made last: <<name, argument>>
  ret,                           \* its outcome: <<kind, value>>
  last_dma_op,                   \* history: the last completed init_dma / deinit_dma
  snapshots,                     \* link_perf_t values the caller still holds
  sink,                          \* MonitorSinkInflux2: fStatNPoint, fStatNSend, fStatNByte
  net                            \* history: what went to the database in this period
                                 \* (points, posts, bytes) and, right after a heartbeat,
                                 \* in the period it closed (last)

vars == <<m_link_index, rfpkt, rfgtx, m_reg_perf_interval_cached,
          m_reg_gtx_perf_interval_cached, m_dma_channel, channels, hwDma,
          nChannels, newChannel, pc, call, ret, last_dma_op, snapshots,
          sink, net>>

---------------------------------------------------------------------------
(* Bounds of the model *)

\* dma_channel objects constructed in one run
MaxChannels == 3
\* buffers the caller can hand to init_dma
NumBuffers == 2
\* link indices 0..MaxLinkIndex
MaxLinkIndex == 2
\* the hardware counters read 0..MaxCount times their weight
MaxCount == 2
\* link_perf_t values the caller keeps
MaxSnapshots == 1
\* metrics in one vector handed to ProcessMetricVec
MaxMetrics == 2
\* metrics handed to the sink between two heartbeats
MaxPoints == 3

---------------------------------------------------------------------------
(* 32-bit words as sets of bit positions *)

Word32 == 0..31

\* the bits of a natural number below 2^31
Bits(n) == {i \in 0..30 : (n \div (2^i)) % 2 = 1}

\* value of a word whose bits are all below position 31
RECURSIVE Val(_)
Val(w) == IF w = {} THEN 0
          ELSE LET i == CHOOSE j \in w : \A k \in w : k <= j
               IN  2^i + Val(w \ {i})

Shl(w, n) == {i + n : i \in w} \cap Word32
Shr(w, n) == {i - n : i \in {j \in w : j >= n}}

\* the word hi * 2^16 + lo
Word(hi, lo) == Shl(Bits(hi), 16) \cup Bits(lo)

---------------------------------------------------------------------------
(* register_file: get_reg / set_reg / masked set_reg / set_bit *)

get_reg(rf, addr) == rf[addr]

set_reg(rf, addr, data) == [rf EXCEPT ![addr] = data]

\* writes only the bits selected by mask, the others keep their value
set_reg_mask(rf, addr, data, mask) ==
  [rf EXCEPT ![addr] = (rf[addr] \ mask) \cup (data \cap mask)]

\* sets or clears exactly bit pos
set_bit(rf, addr, pos, enable) ==
  set_reg_mask(rf, addr, IF enable THEN {pos} ELSE {}, {pos})

PktRegs == {"CRI_REG_PERF_INTERVAL", "CRI_REG_PERF_DMA_STALL",
            "CRI_REG_PERF_EBUF_STALL", "CRI_REG_PERF_RBUF_STALL",
            "CRI_REG_PERF_N_EVENTS", "CRI_REG_TESTREG_DMA"}

GtxRegs == {"CRI_REG_GTX_DATAPATH_CFG", "CRI_REG_GTX_MC_PGEN_CFG_L",
            "CRI_REG_GTX_MC_PGEN_CFG_H", "CRI_REG_GTX_MC_PGEN_MC_PENDING",
            "CRI_REG_TESTREG_DATA", "CRI_REG_GTX_PERF_INTERVAL",
            "CRI_REG_GTX_PERF_PKT_AFULL"}

\* register contents the hardware may hold when the software starts
\* (0x00000000, 0xFFFFFFFF, 0x5A5AA5A5, 0xA5A55A5A)
RegVals == {{}, Word32, Word(23130, 42405), Word(42405, 23130)}

---------------------------------------------------------------------------
(* Addressing: the two register windows of a link in the bar *)

\* log2 of the size of a link's address range and of a register window
CRI_C_CH_ADDR_SEL == 4
CRI_C_DMA_ADDR_SEL == 3

\* offset of every register from the base of its window
CRI_REG_OFFSET ==
  [r \in PktRegs \cup GtxRegs |->
     CASE r = "CRI_REG_PERF_INTERVAL"          -> 0
       [] r = "CRI_REG_PERF_DMA_STALL"         -> 1
       [] r = "CRI_REG_PERF_EBUF_STALL"        -> 2
       [] r = "CRI_REG_PERF_RBUF_STALL"        -> 3
       [] r = "CRI_REG_PERF_N_EVENTS"          -> 4
       [] r = "CRI_REG_TESTREG_DMA"            -> 7
       [] r = "CRI_REG_GTX_DATAPATH_CFG"       -> 0
       [] r = "CRI_REG_GTX_MC_PGEN_CFG_L"      -> 1
       [] r = "CRI_REG_GTX_MC_PGEN_CFG_H"      -> 2
       [] r = "CRI_REG_GTX_MC_PGEN_MC_PENDING" -> 3
       [] r = "CRI_REG_GTX_PERF_INTERVAL"      -> 4
       [] r = "CRI_REG_GTX_PERF_PKT_AFULL"     -> 5
       [] r = "CRI_REG_TESTREG_DATA"           -> 7]

\* m_base_addr = (m_link_index + 1) * (1 << CRI_C_CH_ADDR_SEL)
base_addr(link_index) == (link_index + 1) * 2^CRI_C_CH_ADDR_SEL

\* the gtx view rooted at the base of the packet view
gtx_base_addr_same(base) == base

\* m_base_addr + (1 << CRI_C_DMA_ADDR_SEL)
gtx_base_addr(base) == base + 2^CRI_C_DMA_ADDR_SEL

\* bar address of a register of the packet view and of the gtx view
pkt_addr(link_index, r) == base_addr(link_index) + CRI_REG_OFFSET[r]
gtx_addr(link_index, r) == gtx_base_addr(base_addr(link_index)) + CRI_REG_OFFSET[r]

\* register_file_bar::set_reg: the word at bar address addr takes data; each
\* view shows it in the register it has at that address
bar_set_reg_pkt(link_index, rf, addr, data) ==
  [r \in PktRegs |-> IF pkt_addr(link_index, r) = addr THEN data ELSE rf[r]]
bar_set_reg_gtx(link_index, rf, addr, data) ==
  [r \in GtxRegs |-> IF gtx_addr(link_index, r) = addr THEN data ELSE rf[r]]

---------------------------------------------------------------------------
(* MonitorSinkInflux2: the self-monitoring counters *)

\* static const size_t kSendChunkSize = 2'000'000ull
kSendChunkSize == 2000000

\* size in bytes of InfluxLine(met) + "\n" for the metrics handed in: a short
\* line, one of three quarters of a chunk and one longer than a chunk
LineSizes == {1000, 1500000, 2500000}

\* how a SendData call ends: the response is 200 or 204; the response is an
\* error status, which is logged; resolve or connect throws, so no request
\* goes out; the request is written and http::read or the socket shutdown
\* throws
SendOutcomes == {"ok", "http_error", "no_connect", "no_response"}

\* the counters as ProcessHeartbeat leaves them: the start of a period
StatCountersZero ==
  /\ sink = [fStatNPoint |-> 0, fStatNSend |-> 0, fStatNByte |-> 0]
  /\ net = [points |-> 0, posts |-> 0, bytes |-> 0,
            last |-> [points |-> 0, posts |-> 0, bytes |-> 0]]

\* SendData(msg) with msg.size() = n: the statistics are updated at the end
\* of the try block, which an exception leaves early; the request is on the
\* wire once http::write has returned
SendData(st, n, outcome) ==
  [sink |-> IF outcome \in {"ok", "http_error"}
            THEN [st.sink EXCEPT !.fStatNSend = @ + 1, !.fStatNByte = @ + n]
            ELSE st.sink,
   net  |-> IF outcome # "no_connect"
            THEN [st.net EXCEPT !.posts = @ + 1, !.bytes = @ + n]
            ELSE st.net]

\* the loop of ProcessMetricVec from metric i on, with msg.size() = msg: a
\* message that has grown beyond kSendChunkSize is sent and cleared, and what
\* is left after the last metric is sent
RECURSIVE ProcessMetricVec_loop(_, _, _, _, _)
ProcessMetricVec_loop(metvec, outcomes, i, msg, st) ==
  IF i > Len(metvec)
  THEN IF msg > 0 THEN SendData(st, msg, outcomes[Len(metvec)]) ELSE st
  ELSE IF msg + metvec[i] > kSendChunkSize
       THEN ProcessMetricVec_loop(metvec, outcomes, i + 1, 0,
                                  SendData(st, msg + metvec[i], outcomes[i]))
       ELSE ProcessMetricVec_loop(metvec, outcomes, i + 1, msg + metvec[i], st)

\* ProcessMetricVec(metvec): metvec[i] is the size of the line of metric i,
\* outcomes[i] how the send that metric i triggers ends
ProcessMetricVec(metvec, outcomes) ==
  /\ net.points + Len(metvec) <= MaxPoints
  /\ LET st == ProcessMetricVec_loop(
                 metvec, outcomes, 1, 0,
                 [sink |-> [sink EXCEPT !.fStatNPoint = @ + Len(metvec)],
                  net  |-> [net EXCEPT !.points = @ + Len(metvec),
                                       !.last = [points |-> 0, posts |-> 0,
                                                 bytes |-> 0]]])
     IN  sink' = st.sink /\ net' = st.net
  /\ call' = <<"ProcessMetricVec", Len(metvec)>>
  /\ ret' = <<"void", 0>>
  /\ UNCHANGED <<m_link_index, rfpkt, rfgtx, m_reg_perf_interval_cached,
                 m_reg_gtx_perf_interval_cached, m_dma_channel, channels, hwDma,
                 nChannels, newChannel, pc, last_dma_op, snapshots>>

\* ProcessHeartbeat: the counters are queued as a metric and set to zero
ProcessHeartbeat ==
  /\ call' = <<"ProcessHeartbeat", 0>>
  /\ ret' = <<"QueueMetric", [points |-> sink.fStatNPoint,
                              sends  |-> sink.fStatNSend,
                              bytes  |-> sink.fStatNByte]>>
  /\ sink' = [fStatNPoint |-> 0, fStatNSend |-> 0, fStatNByte |-> 0]
  /\ net' = [points |-> 0, posts |-> 0, bytes |-> 0,
             last |-> [points |-> net.points, posts |-> net.posts,
                       bytes |-> net.bytes]]
  /\ UNCHANGED <<m_link_index, rfpkt, rfgtx, m_reg_perf_interval_cached,
                 m_reg_gtx_perf_interval_cached, m_dma_channel, channels, hwDma,
                 nChannels, newChannel, pc, last_dma_op, snapshots>>

\* the vectors of at most MaxMetrics metrics
MetricVecs == UNION {[1..n -> LineSizes] : n \in 0..MaxMetrics}

NextMonitor ==
  \/ \E metvec \in MetricVecs :
       \E outcomes \in [1..Len(metvec) -> SendOutcomes] :
         ProcessMetricVec(metvec, outcomes)
  \/ ProcessHeartbeat

---------------------------------------------------------------------------
(* Construction *)

\* cri_link::cri_link: the register views and the cached members; g, q and p
\* are what the hardware holds in the datapath-config, pattern-generator
\* config and interval registers
cri_link(link_index, g, q, p) ==
  /\ m_link_index = link_index
  /\ rfgtx = [r \in GtxRegs |->
                IF r = "CRI_REG_GTX_DATAPATH_CFG" THEN g
                ELSE IF r = "CRI_REG_GTX_MC_PGEN_CFG_L" THEN q ELSE {}]
  /\ rfpkt = [r \in PktRegs |-> IF r = "CRI_REG_PERF_INTERVAL" THEN p ELSE {}]
  /\ m_reg_perf_interval_cached = p
  /\ m_reg_gtx_perf_interval_cached = Bits(1)
  /\ m_dma_channel = 0
  /\ channels = {}
  /\ hwDma = 0
  /\ nChannels = 0
  /\ newChannel = 0
  /\ pc = "idle"
  /\ call = <<"cri_link", link_index>>
  /\ ret = <<"none", 0>>
  /\ last_dma_op = "none"
  /\ snapshots = <<>>

Init == StatCountersZero /\ \E i \in 0..MaxLinkIndex, g \in RegVals, q \in RegVals, p \in RegVals :
          cri_link(i, g, q, p)

---------------------------------------------------------------------------
(* DMA channel life cycle *)

Buffers == 1..NumBuffers

\* dma_channel::dma_channel: the object exists and the hardware engine of the
\* link is configured for its buffers
dma_channel_ctor(id) ==
  /\ channels' = channels \cup {id}
  /\ hwDma' = id

\* dma_channel::~dma_channel applied to the channels in old (none or one), with
\* the engine state hw before it: the engine of the link is quiesced
dma_channel_dtor(old, hw) ==
  /\ channels' = channels \ old
  /\ hwDma' = IF old = {} THEN hw ELSE 0

\* init_dma, first half: the right-hand side `new dma_channel(...)` is evaluated
init_dma_new(buf) ==
  /\ pc = "idle"
  /\ nChannels < MaxChannels
  /\ nChannels' = nChannels + 1
  /\ newChannel' = nChannels + 1
  /\ dma_channel_ctor(nChannels + 1)
  /\ pc' = "init_dma_assign"
  /\ call' = <<"init_dma", buf>>
  /\ ret' = <<"none", 0>>
  /\ UNCHANGED <<sink, net, m_link_index, rfpkt, rfgtx, m_reg_perf_interval_cached,
                 m_reg_gtx_perf_interval_cached, m_dma_channel, last_dma_op,
                 snapshots>>

\* init_dma, second half: the move assignment to m_dma_channel takes the new
\* channel and deletes the one held before
init_dma_assign ==
  /\ pc = "init_dma_assign"
  /\ m_dma_channel' = newChannel
  /\ dma_channel_dtor(IF m_dma_channel = 0 THEN {} ELSE {m_dma_channel}, hwDma)
  /\ newChannel' = 0
  /\ pc' = "idle"
  /\ ret' = <<"void", 0>>
  /\ last_dma_op' = "init_dma"
  /\ UNCHANGED <<sink, net, m_link_index, rfpkt, rfgtx, m_reg_perf_interval_cached,
                 m_reg_gtx_perf_interval_cached, nChannels, call, snapshots>>

\* deinit_dma that gives the channel up without deleting it, as
\* m_dma_channel.release() would
deinit_dma_release ==
  /\ pc = "idle"
  /\ m_dma_channel' = 0
  /\ call' = <<"deinit_dma", 0>>
  /\ ret' = <<"void", 0>>
  /\ last_dma_op' = "deinit_dma"
  /\ UNCHANGED <<sink, net, m_link_index, rfpkt, rfgtx, m_reg_perf_interval_cached,
                 m_reg_gtx_perf_interval_cached, channels, hwDma, nChannels,
                 newChannel, pc, snapshots>>

\* deinit_dma that insists on a channel: it reports the missing one
deinit_dma_checked ==
  /\ pc = "idle"
  /\ m_dma_channel' = 0
  /\ dma_channel_dtor(IF m_dma_channel = 0 THEN {} ELSE {m_dma_channel}, hwDma)
  /\ call' = <<"deinit_dma", 0>>
  /\ ret' = IF m_dma_channel = 0 THEN <<"CriException", 0>> ELSE <<"void", 0>>
  /\ last_dma_op' = "deinit_dma"
  /\ UNCHANGED <<sink, net, m_link_index, rfpkt, rfgtx, m_reg_perf_interval_cached,
                 m_reg_gtx_perf_interval_cached, nChannels, newChannel, pc,
                 snapshots>>

\* deinit_dma: m_dma_channel = nullptr
deinit_dma ==
  /\ pc = "idle"
  /\ m_dma_channel' = 0
  /\ dma_channel_dtor(IF m_dma_channel = 0 THEN {} ELSE {m_dma_channel}, hwDma)
  /\ call' = <<"deinit_dma", 0>>
  /\ ret' = <<"void", 0>>
  /\ last_dma_op' = "deinit_dma"
  /\ UNCHANGED <<sink, net, m_link_index, rfpkt, rfgtx, m_reg_perf_interval_cached,
                 m_reg_gtx_perf_interval_cached, nChannels, newChannel, pc,
                 snapshots>>

\* a destructor that ends the link and leaves the channel behind
cri_link_dtor_leak ==
  /\ pc = "idle"
  /\ pc' = "destroyed"
  /\ call' = <<"~cri_link", 0>>
  /\ ret' = <<"void", 0>>
  /\ UNCHANGED <<sink, net, m_link_index, rfpkt, rfgtx, m_reg_perf_interval_cached,
                 m_reg_gtx_perf_interval_cached, m_dma_channel, channels, hwDma,
                 nChannels, newChannel, last_dma_op, snapshots>>

\* ~cri_link() { deinit_dma(); }: the link is gone afterwards
cri_link_dtor ==
  /\ pc = "idle"
  /\ m_dma_channel' = 0
  /\ dma_channel_dtor(IF m_dma_channel = 0 THEN {} ELSE {m_dma_channel}, hwDma)
  /\ pc' = "destroyed"
  /\ call' = <<"~cri_link", 0>>
  /\ ret' = <<"void", 0>>
  /\ UNCHANGED <<sink, net, m_link_index, rfpkt, rfgtx, m_reg_perf_interval_cached,
                 m_reg_gtx_perf_interval_cached, nChannels, newChannel,
                 last_dma_op, snapshots>>

\* dma() without the check: the raw pointer, null included
dma_result_unchecked(chan) == <<"value", chan>>

\* what dma() gives back: the channel, or the exception
dma_result(chan) ==
  IF chan # 0 THEN <<"value", chan>> ELSE <<"CriException", 0>>

\* dma()
dma ==
  /\ pc = "idle"
  /\ call' = <<"dma", 0>>
  /\ ret' = dma_result(m_dma_channel)
  /\ UNCHANGED <<sink, net, m_link_index, rfpkt, rfgtx, m_reg_perf_interval_cached,
                 m_reg_gtx_perf_interval_cached, m_dma_channel, channels, hwDma,
                 nChannels, newChannel, pc, last_dma_op, snapshots>>

NextDma ==
  \/ \E buf \in Buffers : init_dma_new(buf)
  \/ init_dma_assign
  \/ deinit_dma
  \/ dma
  \/ cri_link_dtor

InitMonitor == StatCountersZero /\ cri_link(0, {}, {}, {})

SpecMonitor == InitMonitor /\ [][NextMonitor]_vars

SpecDma == Init /\ [][NextDma]_vars

---------------------------------------------------------------------------
(* Datapath and pattern-generator configuration (gtx domain) *)

\* enum data_source_t
rx_disable == 0
rx_user == 1
rx_pgen == 2

DataSources == {rx_disable, rx_user, rx_pgen}

\* set_data_source writing the whole register
set_data_source_unmasked(src) ==
  /\ pc = "idle"
  /\ rfgtx' = set_reg(rfgtx, "CRI_REG_GTX_DATAPATH_CFG", Bits(src))
  /\ call' = <<"set_data_source", src>>
  /\ ret' = <<"void", 0>>
  /\ UNCHANGED <<sink, net, m_link_index, rfpkt, m_reg_perf_interval_cached,
                 m_reg_gtx_perf_interval_cached, m_dma_channel, channels, hwDma,
                 nChannels, newChannel, pc, last_dma_op, snapshots>>

\* set_data_source: masked write of the low two bits
set_data_source(src) ==
  /\ pc = "idle"
  /\ rfgtx' = set_reg_mask(rfgtx, "CRI_REG_GTX_DATAPATH_CFG", Bits(src), Bits(3))
  /\ call' = <<"set_data_source", src>>
  /\ ret' = <<"void", 0>>
  /\ UNCHANGED <<sink, net, m_link_index, rfpkt, m_reg_perf_interval_cached,
                 m_reg_gtx_perf_interval_cached, m_dma_channel, channels, hwDma,
                 nChannels, newChannel, pc, last_dma_op, snapshots>>

\* the decode with a one-bit mask
data_source_decode_1bit(dp_cfg) == Val(dp_cfg \cap Bits(1))

\* the decode that takes an undefined encoding for rx_disable
data_source_decode_default(dp_cfg) ==
  IF dp_cfg \cap Bits(3) = Bits(3) THEN rx_disable ELSE Val(dp_cfg \cap Bits(3))

\* static_cast<data_source_t>(dp_cfg & 0x3)
data_source_decode(dp_cfg) == Val(dp_cfg \cap Bits(3))

\* data_source()
data_source ==
  /\ pc = "idle"
  /\ call' = <<"data_source", 0>>
  /\ ret' = <<"value",
              data_source_decode(get_reg(rfgtx, "CRI_REG_GTX_DATAPATH_CFG"))>>
  /\ UNCHANGED <<sink, net, m_link_index, rfpkt, rfgtx, m_reg_perf_interval_cached,
                 m_reg_gtx_perf_interval_cached, m_dma_channel, channels, hwDma,
                 nChannels, newChannel, pc, last_dma_op, snapshots>>

\* operator<<(std::ostream&, data_source_t): the text written and whether
\* the stream's failbit is set
ostream_data_source(src) ==
  CASE src = rx_disable -> <<"disable", FALSE>>
    [] src = rx_user    -> <<"   user", FALSE>>
    [] src = rx_pgen    -> <<"   pgen", FALSE>>
    [] OTHER            -> <<"", TRUE>>

\* set_ready_for_data on the neighbouring bit
set_ready_for_data_bit1(enable) ==
  /\ pc = "idle"
  /\ rfgtx' = set_bit(rfgtx, "CRI_REG_GTX_DATAPATH_CFG", 1, enable)
  /\ ret' = <<"void", 0>>
  /\ UNCHANGED <<sink, net, m_link_index, rfpkt, m_reg_perf_interval_cached,
                 m_reg_gtx_perf_interval_cached, m_dma_channel, channels, hwDma,
                 nChannels, newChannel, pc, last_dma_op, snapshots>>

\* set_ready_for_data: bit 2 of the datapath-config register
set_ready_for_data(enable) ==
  /\ pc = "idle"
  /\ rfgtx' = set_bit(rfgtx, "CRI_REG_GTX_DATAPATH_CFG", 2, enable)
  /\ ret' = <<"void", 0>>
  /\ UNCHANGED <<sink, net, m_link_index, rfpkt, m_reg_perf_interval_cached,
                 m_reg_gtx_perf_interval_cached, m_dma_channel, channels, hwDma,
                 nChannels, newChannel, pc, last_dma_op, snapshots>>

enable_readout == set_ready_for_data(TRUE) /\ call' = <<"enable_readout", 0>>

disable_readout == set_ready_for_data(FALSE) /\ call' = <<"disable_readout", 0>>

\* equipment ids handed to set_pgen_id (0x0000, 0x1234, 0xFFFF)
PgenIds == {0, 4660, 65535}

\* set_pgen_id writing the whole register
set_pgen_id_unmasked(eq_id) ==
  /\ pc = "idle"
  /\ rfgtx' = set_reg(rfgtx, "CRI_REG_GTX_MC_PGEN_CFG_L", Bits(eq_id))
  /\ call' = <<"set_pgen_id", eq_id>>
  /\ ret' = <<"void", 0>>
  /\ UNCHANGED <<sink, net, m_link_index, rfpkt, m_reg_perf_interval_cached,
                 m_reg_gtx_perf_interval_cached, m_dma_channel, channels, hwDma,
                 nChannels, newChannel, pc, last_dma_op, snapshots>>

\* set_pgen_id: masked write of the low half
set_pgen_id(eq_id) ==
  /\ pc = "idle"
  /\ rfgtx' = set_reg_mask(rfgtx, "CRI_REG_GTX_MC_PGEN_CFG_L", Bits(eq_id), 0..15)
  /\ call' = <<"set_pgen_id", eq_id>>
  /\ ret' = <<"void", 0>>
  /\ UNCHANGED <<sink, net, m_link_index, rfpkt, m_reg_perf_interval_cached,
                 m_reg_gtx_perf_interval_cached, m_dma_channel, channels, hwDma,
                 nChannels, newChannel, pc, last_dma_op, snapshots>>

\* The float argument of set_pgen_rate is k / PgenDen with PgenDen a power of
\* two: such a float is exact, and so are 1.0 - val and the product with 65535
\* in double precision.
PgenLogDen == 2
PgenDen == 2^PgenLogDen
PgenRates == -1..(PgenDen + 1)

\* only the lower assertion
pgen_rate_asserts_lower(k) == k >= 0

\* assert(val >= 0); assert(val <= 1)
pgen_rate_asserts(k) == k >= 0 /\ k <= PgenDen

\* the threshold without the inversion
pgen_rate_reg_val_direct(k) == (65535 * k) \div PgenDen

\* the threshold rounded to nearest
pgen_rate_reg_val_rounded(k) ==
  (2 * 65535 * (PgenDen - k) + PgenDen) \div (2 * PgenDen)

\* static_cast<uint16_t>(static_cast<float>(UINT16_MAX) * (1.0 - val)): the
\* conversion to an integer drops the fraction
pgen_rate_reg_val(k) == (65535 * (PgenDen - k)) \div PgenDen

\* set_pgen_rate: a failed assertion ends the process, else a masked write of
\* the high half
set_pgen_rate(k) ==
  /\ pc = "idle"
  /\ call' = <<"set_pgen_rate", k>>
  /\ IF pgen_rate_asserts(k)
     THEN /\ rfgtx' = set_reg_mask(rfgtx, "CRI_REG_GTX_MC_PGEN_CFG_L",
                                   Shl(Bits(pgen_rate_reg_val(k) % 65536), 16),
                                   16..31)
          /\ ret' = <<"void", 0>>
          /\ pc' = pc
     ELSE /\ rfgtx' = rfgtx
          /\ ret' = <<"assertion failed", 0>>
          /\ pc' = "aborted"
  /\ UNCHANGED <<sink, net, m_link_index, rfpkt, m_reg_perf_interval_cached,
                 m_reg_gtx_perf_interval_cached, m_dma_channel, channels, hwDma,
                 nChannels, newChannel, last_dma_op, snapshots>>

NextGtx ==
  \/ \E src \in DataSources : set_data_source(src)
  \/ data_source
  \/ enable_readout
  \/ disable_readout
  \/ \E eq_id \in PgenIds : set_pgen_id(eq_id)
  \/ \E k \in PgenRates : set_pgen_rate(k)

\* the gtx-domain configuration on its own, from every content of its registers
InitGtx == StatCountersZero /\ \E g \in RegVals, q \in RegVals : cri_link(0, g, q, {})

SpecGtx == InitGtx /\ [][NextGtx]_vars

---------------------------------------------------------------------------
(* Performance counters (packet domain) *)

\* packet-domain clock in Hz
pkt_clk == 250000000

\* arguments of set_perf_interval, in ms (the last stands for every large value)
IntervalVals == {0, 1, 1000, 17000, 17001, 40000, 2147483647}

\* the clamp with the limit taken in seconds
perf_interval_clamp_seconds(interval) == IF interval > 17000 THEN 17 ELSE interval

\* if (interval > 17000) interval = 17000
perf_interval_clamp(interval) == IF interval > 17000 THEN 17000 ELSE interval

\* interval * (pkt_clk * 1E-3) as a 32-bit word; the product is formed in two
\* 16-bit halves of the factor
perf_interval_cycles(interval) ==
  LET f  == pkt_clk \div 1000
      lo == interval * (f % 65536)
      hi == interval * (f \div 65536) + lo \div 65536
  IN  Word(hi % 65536, lo % 65536)

\* set_perf_interval: clamp, convert, cache, write
set_perf_interval(interval) ==
  /\ pc = "idle"
  /\ m_reg_perf_interval_cached' =
       perf_interval_cycles(perf_interval_clamp(interval))
  /\ rfpkt' = set_reg(rfpkt, "CRI_REG_PERF_INTERVAL", m_reg_perf_interval_cached')
  /\ call' = <<"set_perf_interval", interval>>
  /\ ret' = <<"void", 0>>
  /\ UNCHANGED <<sink, net, m_link_index, rfgtx, m_reg_gtx_perf_interval_cached,
                 m_dma_channel, channels, hwDma, nChannels, newChannel, pc,
                 last_dma_op, snapshots>>

get_dma_stall == get_reg(rfpkt, "CRI_REG_PERF_DMA_STALL")
get_data_buf_stall == get_reg(rfpkt, "CRI_REG_PERF_EBUF_STALL")
get_desc_buf_stall == get_reg(rfpkt, "CRI_REG_PERF_RBUF_STALL")
get_event_cnt == get_reg(rfpkt, "CRI_REG_PERF_N_EVENTS")

\* get_din_full_gtx reading the hardware counter
get_din_full_gtx_reg == get_reg(rfgtx, "CRI_REG_GTX_PERF_PKT_AFULL")

\* return 0; // TODO fake
get_din_full_gtx == {}

\* get_perf_interval_cycles_pkt(): the cached member
get_perf_interval_cycles_pkt ==
  /\ pc = "idle"
  /\ call' = <<"get_perf_interval_cycles_pkt", 0>>
  /\ ret' = <<"value", m_reg_perf_interval_cached>>
  /\ UNCHANGED <<sink, net, m_link_index, rfpkt, rfgtx, m_reg_perf_interval_cached,
                 m_reg_gtx_perf_interval_cached, m_dma_channel, channels, hwDma,
                 nChannels, newChannel, pc, last_dma_op, snapshots>>

\* n_events / (float(m_reg_perf_interval_cached) / pkt_clk): the quotient is
\* kept as its two operands, events per interval of so many cycles; with a
\* cached interval of zero the division is by 0.0 and yields no rate
\* (infinity, or NaN for no events)
get_event_rate_result(n_events, cycles) ==
  IF cycles # {} THEN <<"value", [events |-> n_events, cycles |-> cycles]>>
  ELSE IF n_events # {} THEN <<"inf", 0>> ELSE <<"nan", 0>>

\* get_event_rate()
get_event_rate ==
  /\ pc = "idle"
  /\ call' = <<"get_event_rate", 0>>
  /\ ret' = get_event_rate_result(get_event_cnt, m_reg_perf_interval_cached)
  /\ UNCHANGED <<sink, net, m_link_index, rfpkt, rfgtx, m_reg_perf_interval_cached,
                 m_reg_gtx_perf_interval_cached, m_dma_channel, channels, hwDma,
                 nChannels, newChannel, pc, last_dma_op, snapshots>>

\* a link_perf_t whose interval is read back from the register
link_perf_t_fresh ==
  [pkt_cycle_cnt  |-> get_reg(rfpkt, "CRI_REG_PERF_INTERVAL"),
   dma_stall      |-> get_dma_stall,
   data_buf_stall |-> get_data_buf_stall,
   desc_buf_stall |-> get_desc_buf_stall,
   events         |-> get_event_cnt,
   gtx_cycle_cnt  |-> m_reg_gtx_perf_interval_cached,
   din_full_gtx   |-> get_din_full_gtx]

\* the link_perf_t that link_perf() fills
link_perf_t ==
  [pkt_cycle_cnt  |-> m_reg_perf_interval_cached,
   dma_stall      |-> get_dma_stall,
   data_buf_stall |-> get_data_buf_stall,
   desc_buf_stall |-> get_desc_buf_stall,
   events         |-> get_event_cnt,
   gtx_cycle_cnt  |-> m_reg_gtx_perf_interval_cached,
   din_full_gtx   |-> get_din_full_gtx]

\* link_perf handing out one shared object: every holder sees the new values
link_perf_return_shared(held, perf) ==
  IF Len(held) < MaxSnapshots
  THEN Append([i \in 1..Len(held) |-> perf], perf)
  ELSE [i \in 1..Len(held) |-> perf]

\* `return perf;` hands the caller a copy: the values held before stay as
\* they are (a caller that holds MaxSnapshots of them drops the new one)
link_perf_return(held, perf) ==
  IF Len(held) < MaxSnapshots THEN Append(held, perf) ELSE held

\* link_perf()
link_perf ==
  /\ pc = "idle"
  /\ snapshots' = link_perf_return(snapshots, link_perf_t)
  /\ call' = <<"link_perf", 0>>
  /\ ret' = <<"value", 0>>
  /\ UNCHANGED <<sink, net, m_link_index, rfpkt, rfgtx, m_reg_perf_interval_cached,
                 m_reg_gtx_perf_interval_cached, m_dma_channel, channels, hwDma,
                 nChannels, newChannel, pc, last_dma_op>>

\* the hardware latches the counters of a finished interval
hw_perf_counters(v) ==
  /\ rfpkt' = [rfpkt EXCEPT !["CRI_REG_PERF_DMA_STALL"]  = Bits(v),
                            !["CRI_REG_PERF_EBUF_STALL"] = Bits(2 * v),
                            !["CRI_REG_PERF_RBUF_STALL"] = Bits(3 * v),
                            !["CRI_REG_PERF_N_EVENTS"]   = Bits(5 * v)]
  /\ rfgtx' = [rfgtx EXCEPT !["CRI_REG_GTX_PERF_INTERVAL"]  = Bits(7 * v),
                            !["CRI_REG_GTX_PERF_PKT_AFULL"] = Bits(11 * v)]
  /\ call' = <<"hw_perf_counters", v>>
  /\ ret' = <<"none", 0>>
  /\ UNCHANGED <<sink, net, m_link_index, m_reg_perf_interval_cached,
                 m_reg_gtx_perf_interval_cached, m_dma_channel, channels, hwDma,
                 nChannels, newChannel, pc, last_dma_op, snapshots>>

\* the interval register is written from outside this Link object (the
\* register belongs to the hardware and is shared with every other holder of
\* the register file)
hw_perf_interval(p) ==
  /\ rfpkt' = [rfpkt EXCEPT !["CRI_REG_PERF_INTERVAL"] = p]
  /\ call' = <<"hw_perf_interval", 0>>
  /\ ret' = <<"none", 0>>
  /\ UNCHANGED <<sink, net, m_link_index, rfgtx, m_reg_perf_interval_cached,
                 m_reg_gtx_perf_interval_cached, m_dma_channel, channels, hwDma,
                 nChannels, newChannel, pc, last_dma_op, snapshots>>

\* set_testreg_dma: a write through the packet view
set_testreg_dma(data) ==
  /\ pc = "idle"
  /\ rfpkt' = bar_set_reg_pkt(m_link_index, rfpkt,
                              pkt_addr(m_link_index, "CRI_REG_TESTREG_DMA"), data)
  /\ rfgtx' = bar_set_reg_gtx(m_link_index, rfgtx,
                              pkt_addr(m_link_index, "CRI_REG_TESTREG_DMA"), data)
  /\ call' = <<"set_testreg_dma", data>>
  /\ ret' = <<"void", 0>>
  /\ UNCHANGED <<sink, net, m_link_index, m_reg_perf_interval_cached,
                 m_reg_gtx_perf_interval_cached, m_dma_channel, channels, hwDma,
                 nChannels, newChannel, pc, last_dma_op, snapshots>>

\* get_testreg_dma
get_testreg_dma ==
  /\ pc = "idle"
  /\ call' = <<"get_testreg_dma", 0>>
  /\ ret' = <<"value", get_reg(rfpkt, "CRI_REG_TESTREG_DMA")>>
  /\ UNCHANGED <<sink, net, m_link_index, rfpkt, rfgtx, m_reg_perf_interval_cached,
                 m_reg_gtx_perf_interval_cached, m_dma_channel, channels, hwDma,
                 nChannels, newChannel, pc, last_dma_op, snapshots>>

\* set_testreg_data: a write through the gtx view
set_testreg_data(data) ==
  /\ pc = "idle"
  /\ rfpkt' = bar_set_reg_pkt(m_link_index, rfpkt,
                              gtx_addr(m_link_index, "CRI_REG_TESTREG_DATA"), data)
  /\ rfgtx' = bar_set_reg_gtx(m_link_index, rfgtx,
                              gtx_addr(m_link_index, "CRI_REG_TESTREG_DATA"), data)
  /\ call' = <<"set_testreg_data", data>>
  /\ ret' = <<"void", 0>>
  /\ UNCHANGED <<sink, net, m_link_index, m_reg_perf_interval_cached,
                 m_reg_gtx_perf_interval_cached, m_dma_channel, channels, hwDma,
                 nChannels, newChannel, pc, last_dma_op, snapshots>>

\* get_testreg_data
get_testreg_data ==
  /\ pc = "idle"
  /\ call' = <<"get_testreg_data", 0>>
  /\ ret' = <<"value", get_reg(rfgtx, "CRI_REG_TESTREG_DATA")>>
  /\ UNCHANGED <<sink, net, m_link_index, rfpkt, rfgtx, m_reg_perf_interval_cached,
                 m_reg_gtx_perf_interval_cached, m_dma_channel, channels, hwDma,
                 nChannels, newChannel, pc, last_dma_op, snapshots>>

\* the test registers of both windows, for every link index
NextTestreg ==
  \/ \E data \in RegVals : set_testreg_dma(data)
  \/ get_testreg_dma
  \/ \E data \in RegVals : set_testreg_data(data)
  \/ get_testreg_data

InitTestreg == StatCountersZero /\ \E i \in 0..MaxLinkIndex, g \in RegVals : cri_link(i, g, {}, {})

SpecTestreg == InitTestreg /\ [][NextTestreg]_vars

NextPerf ==
  \/ \E interval \in IntervalVals : set_perf_interval(interval)
  \/ link_perf
  \/ \E v \in 0..MaxCount : hw_perf_counters(v)
  \/ \E data \in {{}, Word32} : set_testreg_dma(data)

\* the packet domain on its own, from every content of the interval register
InitPerf == StatCountersZero /\ \E p \in RegVals : cri_link(0, {}, {}, p)

SpecPerf == InitPerf /\ [][NextPerf]_vars

\* the interval register, its cache and their readers
NextInterval ==
  \/ \E interval \in IntervalVals : set_perf_interval(interval)
  \/ get_perf_interval_cycles_pkt
  \/ get_event_rate
  \/ link_perf
  \/ \E p \in {{}, Word32} : hw_perf_interval(p)

SpecInterval == InitPerf /\ [][NextInterval]_vars

---------------------------------------------------------------------------
(* The whole link *)

Next == NextDma \/ NextGtx \/ NextPerf \/ NextInterval \/ NextTestreg

Spec == Init /\ [][Next]_vars

---------------------------------------------------------------------------
(* The configuration scenario: Link(index = 2), then set_data_source(rx_pgen), *)
(* set_pgen_rate(0.5), enable_readout(), set_perf_interval(1000) and a         *)
(* data_source() read, from every register content                            *)

scenario_set_data_source ==
  call = <<"cri_link", 2>> /\ set_data_source(rx_pgen)

scenario_set_pgen_rate ==
  call = <<"set_data_source", rx_pgen>> /\ set_pgen_rate(PgenDen \div 2)

scenario_enable_readout ==
  call = <<"set_pgen_rate", PgenDen \div 2>> /\ enable_readout

scenario_set_perf_interval ==
  call = <<"enable_readout", 0>> /\ set_perf_interval(1000)

scenario_data_source ==
  call = <<"set_perf_interval", 1000>> /\ data_source

NextScenario ==
  \/ scenario_set_data_source
  \/ scenario_set_pgen_rate
  \/ scenario_enable_readout
  \/ scenario_set_perf_interval
  \/ scenario_data_source

InitScenario == StatCountersZero /\ \E g \in RegVals, q \in RegVals, p \in RegVals : cri_link(2, g, q, p)

SpecScenario == InitScenario /\ [][NextScenario]_vars

---------------------------------------------------------------------------
(* Properties *)

DatapathCfg == rfgtx["CRI_REG_GTX_DATAPATH_CFG"]
PgenCfg == rfgtx["CRI_REG_GTX_MC_PGEN_CFG_L"]

\* the 16-bit threshold in the high half of the pattern-generator config register
PgenThreshold == Val(Shr(PgenCfg, 16))

\* 17000 ms at the packet clock: 4250000000 = 0xFD51DA80
Cycles17000 == Word(64849, 55936)

\* C1: dma() fails with the not-initialized exception before any init_dma and
\* after a deinit_dma, and after an init_dma it returns the channel that
\* init_dma created, which is live; it never returns a null channel.
C1_DmaNotInitialized ==
  call[1] = "dma" =>
    IF last_dma_op = "init_dma"
    THEN ret[1] = "value" /\ ret[2] # 0 /\ ret[2] \in channels /\ ret[2] = nChannels
    ELSE ret = <<"CriException", 0>>

\* C1 witness: dma() fails again after an init_dma and a deinit_dma
C1_Witness ==
  /\ call[1] = "dma"
  /\ last_dma_op = "deinit_dma"
  /\ nChannels >= 1
  /\ ret[1] = "CriException"

\* C2: at no point of any sequence of init_dma / deinit_dma calls are two
\* dma_channel objects of the link live (the previous one is torn down before
\* the new one is created and configures the hardware).
C2_OneLiveChannel == Cardinality(channels) <= 1

\* C3: data_source() called right after set_data_source(source) returns source.
C3_DataSourceRoundTrip ==
  [][(call[1] = "set_data_source" /\ call'[1] = "data_source")
       => ret' = <<"value", call[2]>>]_vars

\* C3 witness: the register started as 0xFFFFFFFF, whose source field is the
\* undefined encoding 3, and data_source() now returns rx_user
C3_Witness ==
  /\ call[1] = "data_source"
  /\ ret = <<"value", rx_user>>
  /\ 3..31 \subseteq DatapathCfg

\* C4: set_data_source changes only the low 2 bits of the datapath-config
\* register: bit 2 (ready for data), every other bit of it and every other
\* register keep their value.
C4_SetDataSourceFrame ==
  [][call'[1] = "set_data_source" =>
       /\ rfgtx'["CRI_REG_GTX_DATAPATH_CFG"] \ {0, 1} = DatapathCfg \ {0, 1}
       /\ \A r \in GtxRegs \ {"CRI_REG_GTX_DATAPATH_CFG"} : rfgtx'[r] = rfgtx[r]
       /\ rfpkt' = rfpkt]_vars

\* C4 witness: a set_data_source(rx_disable) on a register whose other bits,
\* the ready-for-data bit among them, are all 1
C4_Witness ==
  /\ call = <<"set_data_source", rx_disable>>
  /\ DatapathCfg = Word32 \ {0, 1}

\* C5 as stated: after set_pgen_rate(fraction) with fraction in [0, 1] the
\* threshold is (1 - fraction) * 65535 rounded to the nearest integer.
C5_ThresholdRounded ==
  (call[1] = "set_pgen_rate" /\ call[2] >= 0 /\ call[2] <= PgenDen) =>
    /\ 2 * PgenThreshold * PgenDen <= 2 * 65535 * (PgenDen - call[2]) + PgenDen
    /\ 2 * 65535 * (PgenDen - call[2]) + PgenDen < 2 * (PgenThreshold + 1) * PgenDen

\* C5 amended: after set_pgen_rate(fraction) with fraction in [0, 1] the
\* threshold is (1 - fraction) * 65535 with its fractional part dropped;
\* fraction 1.0 gives 0 and fraction 0.0 gives 65535.
C5_ThresholdTruncated ==
  (call[1] = "set_pgen_rate" /\ call[2] >= 0 /\ call[2] <= PgenDen) =>
    /\ PgenThreshold * PgenDen <= 65535 * (PgenDen - call[2])
    /\ 65535 * (PgenDen - call[2]) < (PgenThreshold + 1) * PgenDen
    /\ (call[2] = PgenDen => PgenThreshold = 0)
    /\ (call[2] = 0 => PgenThreshold = 65535)

\* C5 witness: set_pgen_rate(0.5) left the threshold 32767
C5_Witness ==
  /\ call = <<"set_pgen_rate", PgenDen \div 2>>
  /\ PgenThreshold = 32767

\* C6: set_pgen_rate with a value below 0.0 or above 1.0 fails (the assertion)
\* and writes no register.
C6_RateOutOfRange ==
  [][(call'[1] = "set_pgen_rate" /\ pc = "idle"
        /\ (call'[2] < 0 \/ call'[2] > PgenDen)) =>
       /\ ret' = <<"assertion failed", 0>>
       /\ pc' = "aborted"
       /\ rfgtx' = rfgtx
       /\ rfpkt' = rfpkt]_vars

\* C6 witness: a set_pgen_rate above 1.0 has failed
C6_Witness ==
  /\ call = <<"set_pgen_rate", PgenDen + 1>>
  /\ pc = "aborted"
  /\ ret[1] = "assertion failed"

\* C7: set_perf_interval(interval_ms) with interval_ms > 17000 leaves the cache
\* and the interval register with the values of set_perf_interval(17000); up to
\* 17000 the value is interval_ms * pkt_clk / 1000 cycles.
C7_IntervalClamped ==
  call[1] = "set_perf_interval" =>
    /\ rfpkt["CRI_REG_PERF_INTERVAL"] = m_reg_perf_interval_cached
    /\ (call[2] >= 17000 => m_reg_perf_interval_cached = Cycles17000)
    /\ (call[2] <= 8589 =>
          m_reg_perf_interval_cached = Bits(call[2] * (pkt_clk \div 1000)))

\* C7 witness: a set_perf_interval far beyond 17000 ms left the 17000 ms value
C7_Witness ==
  /\ call = <<"set_perf_interval", 2147483647>>
  /\ m_reg_perf_interval_cached = Cycles17000
  /\ rfpkt["CRI_REG_PERF_INTERVAL"] = Cycles17000

\* C8: a link_perf_t that link_perf() returned is a frozen copy: no later
\* operation on the link and no later change of the hardware counters changes
\* a field of it.
C8_SnapshotFrozen ==
  [][\A i \in 1..Len(snapshots) :
       Len(snapshots') >= i /\ snapshots'[i] = snapshots[i]]_vars

\* C8 witness: a held snapshot that differs from what the link holds now, after
\* a later link_perf()
C8_Witness ==
  /\ call[1] = "link_perf"
  /\ Len(snapshots) >= 1
  /\ snapshots[1].pkt_cycle_cnt # m_reg_perf_interval_cached
  /\ snapshots[1].events # get_event_cnt

\* C9: deinit_dma() on a link without a channel raises nothing and leaves the
\* link and every register as they were, so a second deinit_dma() in a row
\* changes nothing.
C9_DeinitNoOp ==
  [][(call'[1] = "deinit_dma" /\ pc = "idle" /\ m_dma_channel = 0) =>
       /\ ret' = <<"void", 0>>
       /\ UNCHANGED <<sink, net, m_link_index, rfpkt, rfgtx, m_reg_perf_interval_cached,
                      m_reg_gtx_perf_interval_cached, m_dma_channel, channels,
                      hwDma, nChannels, newChannel, pc, snapshots>>]_vars

\* C9 witness: deinit_dma() was called on a link that never had a channel
C9_Witness ==
  /\ call[1] = "deinit_dma"
  /\ nChannels = 0
  /\ ret = <<"void", 0>>

\* C10 as stated: after the scenario data_source() is rx_pgen, the threshold
\* is 32768, the ready-for-data bit is 1 and the cached interval is
\* 1000 * pkt_clk / 1000.
C10_ScenarioRounded ==
  call[1] = "data_source" =>
    /\ ret = <<"value", rx_pgen>>
    /\ PgenThreshold = 32768
    /\ 2 \in DatapathCfg
    /\ m_reg_perf_interval_cached = Bits(pkt_clk)

\* C10 amended: after the scenario data_source() is rx_pgen, the threshold is
\* 32767, the ready-for-data bit is 1 and the cached interval is
\* 1000 * pkt_clk / 1000.
C10_Scenario ==
  call[1] = "data_source" =>
    /\ m_link_index = 2
    /\ ret = <<"value", rx_pgen>>
    /\ PgenThreshold = 32767
    /\ 2 \in DatapathCfg
    /\ m_reg_perf_interval_cached = Bits(pkt_clk)

\* C10 witness: the scenario has run to its end on a link whose registers
\* started as 0xFFFFFFFF
C10_Witness ==
  /\ call[1] = "data_source"
  /\ m_link_index = 2
  /\ 3..31 \subseteq DatapathCfg
  /\ PgenCfg \cap (0..15) = 0..15

\* C11 as stated: in every link_perf_t that link_perf() returned the
\* gtx-domain fields are zero: gtx_cycle_cnt = 0 and din_full_gtx = 0.
C11_GtxCountersZero ==
  \A i \in 1..Len(snapshots) :
    snapshots[i].gtx_cycle_cnt = {} /\ snapshots[i].din_full_gtx = {}

\* C11 amended: in every link_perf_t that link_perf() returned the gtx-domain
\* fields are fixed placeholders, whatever the hardware registers hold:
\* gtx_cycle_cnt = 1 and din_full_gtx = 0.
C11_GtxCountersStubbed ==
  \A i \in 1..Len(snapshots) :
    snapshots[i].gtx_cycle_cnt = Bits(1) /\ snapshots[i].din_full_gtx = {}

\* C11 witness: a snapshot taken while the gtx-domain registers of the
\* hardware held non-zero counts
C11_Witness ==
  /\ call[1] = "link_perf"
  /\ Len(snapshots) >= 1
  /\ rfgtx["CRI_REG_GTX_PERF_PKT_AFULL"] # {}
  /\ rfgtx["CRI_REG_GTX_PERF_INTERVAL"] # {}
  /\ snapshots[1].events = get_event_cnt
  /\ snapshots[1].events # {}

\* C12: when the low 2 bits of the datapath-config register hold none of the
\* three defined encodings, data_source() returns a value distinct from
\* rx_disable, rx_user and rx_pgen (one the stream operator rejects); it
\* returns a defined source only when the register holds its encoding.
C12_UndefinedEncoding ==
  call[1] = "data_source" =>
    /\ ret[1] = "value"
    /\ (DatapathCfg \cap {0, 1} = {0, 1} =>
          ret[2] \notin DataSources /\ ostream_data_source(ret[2]) = <<"", TRUE>>)
    /\ (ret[2] \in DataSources => Bits(ret[2]) = DatapathCfg \cap {0, 1})

\* C12 witness: data_source() read the undefined encoding 3
C12_Witness ==
  /\ call[1] = "data_source"
  /\ DatapathCfg \cap {0, 1} = {0, 1}
  /\ ret = <<"value", 3>>

\* C13: destroying a Link deinitializes its DMA. Whatever init_dma and
\* deinit_dma calls came before, after ~cri_link no channel of the link is
\* live, the pointer is null and the engine is quiesced; the channel the
\* link held was live until then (it is deleted once, here), and with no
\* channel held the destruction changes nothing of the DMA state.
C13_DestructionDeinitializes ==
  [][pc' = "destroyed" =>
       /\ call' = <<"~cri_link", 0>>
       /\ channels' = {} /\ m_dma_channel' = 0 /\ hwDma' = 0
       /\ (m_dma_channel # 0 =>
             m_dma_channel \in channels /\ channels' = channels \ {m_dma_channel})
       /\ (m_dma_channel = 0 => UNCHANGED <<channels, hwDma>>)]_vars

\* C13 witness: a link that was re-initialized is destroyed while it holds
\* its second channel
C13_Witness ==
  /\ pc = "destroyed"
  /\ last_dma_op = "init_dma"
  /\ nChannels = 2
  /\ channels = {}

\* C14: the hardware DMA engine is never enabled for buffers the Link has
\* let go of: whenever the engine is enabled, it is enabled for a live
\* channel that the Link still holds (m_dma_channel, or the channel under
\* construction in init_dma). deinit_dma quiesces as it releases.
C14_QuiescedBeforeRelease ==
  hwDma # 0 => hwDma \in channels /\ hwDma \in {m_dma_channel, newChannel}

\* C14 witness: deinit_dma has released a channel whose engine was enabled
C14_Witness ==
  /\ call[1] = "deinit_dma"
  /\ last_dma_op = "deinit_dma"
  /\ nChannels = 1
  /\ channels = {}
  /\ hwDma = 0

\* C16: enable_readout() and disable_readout() change exactly bit 2 of the
\* datapath-config register, to 1 and to 0; the data-source field, every
\* other bit, every other register, the cached intervals and the DMA channel
\* stay as they are, and data_source() would return the same value.
C16_ReadoutBitOnly ==
  [][call'[1] \in {"enable_readout", "disable_readout"} =>
       /\ rfgtx' = [rfgtx EXCEPT !["CRI_REG_GTX_DATAPATH_CFG"] =
                      IF call'[1] = "enable_readout" THEN @ \cup {2} ELSE @ \ {2}]
       /\ data_source_decode(rfgtx'["CRI_REG_GTX_DATAPATH_CFG"]) =
            data_source_decode(rfgtx["CRI_REG_GTX_DATAPATH_CFG"])
       /\ UNCHANGED <<sink, net, m_link_index, rfpkt, m_reg_perf_interval_cached,
                      m_reg_gtx_perf_interval_cached, m_dma_channel, channels,
                      hwDma, nChannels, newChannel, pc, snapshots>>]_vars

\* C16 witness: disable_readout cleared bit 2 of a register whose other bits
\* are all set
C16_Witness ==
  /\ call[1] = "disable_readout"
  /\ DatapathCfg = Word32 \ {2}

\* C17: set_pgen_id(id) sets the low 16 bits of the pattern-generator config
\* register to id and leaves the high 16 bits alone; a set_pgen_rate that
\* passes its range check sets the high 16 bits to its threshold and leaves
\* the low 16 bits alone; no other register changes.
C17_PgenHalvesIndependent ==
  [][/\ call'[1] = "set_pgen_id" =>
          /\ rfgtx' = [rfgtx EXCEPT !["CRI_REG_GTX_MC_PGEN_CFG_L"] =
                         (@ \cap (16..31)) \cup Bits(call'[2])]
          /\ call'[2] \in 0..65535
     /\ (call'[1] = "set_pgen_rate" /\ ret'[1] = "void") =>
          rfgtx' = [rfgtx EXCEPT !["CRI_REG_GTX_MC_PGEN_CFG_L"] =
                      (@ \cap (0..15)) \cup Shl(Bits(pgen_rate_reg_val(call'[2])), 16)]
    ]_vars

\* C17 witness: after set_pgen_rate(0.5) and then set_pgen_id(0x1234) the
\* register holds the threshold and the id
C17_Witness ==
  /\ call = <<"set_pgen_id", 4660>>
  /\ PgenThreshold = 32767
  /\ PgenCfg \cap (0..15) = Bits(4660)

\* C18: the cached packet-domain interval is the value software wrote last:
\* at construction it is the register's content, only set_perf_interval
\* changes it, and then to the value it writes to the register; a write to
\* the register from elsewhere leaves it alone. get_perf_interval_cycles_pkt()
\* and link_perf().pkt_cycle_cnt give the cached value, not the register.
C18_CacheInSync ==
  /\ call[1] = "cri_link" =>
       m_reg_perf_interval_cached = rfpkt["CRI_REG_PERF_INTERVAL"]
  /\ [][/\ m_reg_perf_interval_cached' # m_reg_perf_interval_cached =>
             call'[1] = "set_perf_interval"
        /\ call'[1] = "set_perf_interval" =>
             /\ m_reg_perf_interval_cached' = rfpkt'["CRI_REG_PERF_INTERVAL"]
             /\ m_reg_perf_interval_cached' =
                  perf_interval_cycles(perf_interval_clamp(call'[2]))
        /\ call'[1] = "get_perf_interval_cycles_pkt" =>
             ret' = <<"value", m_reg_perf_interval_cached>>
        /\ (call'[1] = "link_perf" /\ Len(snapshots') > Len(snapshots)) =>
             snapshots'[Len(snapshots')].pkt_cycle_cnt = m_reg_perf_interval_cached
       ]_vars

\* C18 witness: after set_perf_interval(1) the register was overwritten from
\* outside; the snapshot taken and the getter both give the 250000 cycles of
\* the cache
C18_Witness ==
  /\ call[1] = "get_perf_interval_cycles_pkt"
  /\ ret = <<"value", Bits(250000)>>
  /\ m_reg_perf_interval_cached = Bits(250000)
  /\ rfpkt["CRI_REG_PERF_INTERVAL"] = Word32
  /\ Len(snapshots) = 1
  /\ snapshots[1].pkt_cycle_cnt = Bits(250000)

\* C20: a get_event_rate() that follows a set_perf_interval call, whatever
\* its argument, divides by a non-zero cached interval and yields a rate.
C20_RateDefinedAfterSet ==
  [][(call[1] = "set_perf_interval" /\ call'[1] = "get_event_rate") =>
       m_reg_perf_interval_cached # {} /\ ret'[1] = "value"]_vars

\* C20 witness: set_perf_interval(0) has just cached an interval of zero
C20_Witness ==
  /\ call = <<"set_perf_interval", 0>>
  /\ m_reg_perf_interval_cached = {}
  /\ rfpkt["CRI_REG_PERF_INTERVAL"] = {}

\* C19: the packet window of link i starts at (i + 1) * 2^CRI_C_CH_ADDR_SEL
\* and the gtx window 2^CRI_C_DMA_ADDR_SEL above it, no register of one
\* view has the bar address of a register of the other, and so a write
\* through one view changes that register only: set_testreg_dma leaves every
\* gtx register (get_testreg_data's included) as it is, set_testreg_data
\* every packet register, and each getter reads what its setter wrote.
C19_WindowsNotAliased ==
  /\ \A r \in PktRegs, q \in GtxRegs :
       /\ pkt_addr(m_link_index, r) =
            (m_link_index + 1) * 2^CRI_C_CH_ADDR_SEL + CRI_REG_OFFSET[r]
       /\ gtx_addr(m_link_index, q) =
            (m_link_index + 1) * 2^CRI_C_CH_ADDR_SEL + 2^CRI_C_DMA_ADDR_SEL
              + CRI_REG_OFFSET[q]
       /\ pkt_addr(m_link_index, r) # gtx_addr(m_link_index, q)
  /\ [][/\ call'[1] = "set_testreg_dma" =>
             /\ rfgtx' = rfgtx
             /\ rfpkt' = [rfpkt EXCEPT !["CRI_REG_TESTREG_DMA"] = call'[2]]
        /\ call'[1] = "set_testreg_data" =>
             /\ rfpkt' = rfpkt
             /\ rfgtx' = [rfgtx EXCEPT !["CRI_REG_TESTREG_DATA"] = call'[2]]
        /\ call'[1] = "get_testreg_dma" =>
             ret' = <<"value", rfpkt["CRI_REG_TESTREG_DMA"]>>
        /\ call'[1] = "get_testreg_data" =>
             ret' = <<"value", rfgtx["CRI_REG_TESTREG_DATA"]>>
       ]_vars

\* C19 witness: on link 2 (packet window at 48, gtx window at 56) the two
\* test registers hold different values and get_testreg_data has read its own
C19_Witness ==
  /\ m_link_index = 2
  /\ pkt_addr(2, "CRI_REG_TESTREG_DMA") = 55
  /\ gtx_addr(2, "CRI_REG_TESTREG_DATA") = 63
  /\ call[1] = "get_testreg_data"
  /\ ret = <<"value", Word(23130, 42405)>>
  /\ rfpkt["CRI_REG_TESTREG_DMA"] = Word32

\* C15: the metric that ProcessHeartbeat queues reports as `sends` the number
\* of HTTP POST requests made since the previous heartbeat, as `bytes` the
\* bytes of those requests and as `points` the metrics handed to
\* ProcessMetricVec since then, and the heartbeat leaves all counters zero.
C15_HeartbeatCounts ==
  call[1] = "ProcessHeartbeat" =>
    /\ ret[2].points = net.last.points
    /\ ret[2].sends = net.last.posts
    /\ ret[2].bytes = net.last.bytes
    /\ sink = [fStatNPoint |-> 0, fStatNSend |-> 0, fStatNByte |-> 0]

\* C15 witness: a heartbeat after a period in which one request of 2500000
\* bytes went out and none was counted
C15_Witness ==
  /\ call[1] = "ProcessHeartbeat"
  /\ net.last = [points |-> 1, posts |-> 1, bytes |-> 2500000]
  /\ ret[2] = [points |-> 1, sends |-> 0, bytes |-> 0]
  /\ sink = [fStatNPoint |-> 0, fStatNSend |-> 0, fStatNByte |-> 0]

====
